---- MODULE Spec2Model ----
(***************************************************************************)
(* State machine of the LiquidLaunch wallet-statistics page (src/App.tsx): *)
(* the App component's React state, the stats card it mounts, the fetches  *)
(* and exports that are awaiting a promise, and the effects that leave the *)
(* page (outbound requests, saved files, console.error lines).             *)
(*                                                                         *)
(* Text is a sequence of one-character strings, so that trim() and the     *)
(* address pattern are computed character by character.                    *)
(***************************************************************************)
EXTENDS Naturals, Sequences, FiniteSets, TLC

VARIABLES
    walletAddress,      \* useState("")      : text of the address input
    stats,              \* useState(null)    : the payload stored by setStats
    loading,            \* useState(false)
    error,              \* useState("")
    isGeneratingImage,  \* useState(false)
    cardEl,             \* statsCardRef.current: the mounted card element, 0 = none
    btnStyle,           \* inline style.display of each live card's save button
    crashed,            \* a render threw and React unmounted the root
    fetches,            \* fetchWalletStats calls suspended at an await
    requests,           \* outbound requests issued so far, by address in the URL
    exports,            \* downloadStatsImage calls suspended at html2canvas
    downloads,          \* files saved by link.click()
    logged,             \* number of console.error calls
    submitted,          \* history: the input text of every fetchWalletStats call
    fmt,                \* a call of formatNumber: its argument and its result
    effects             \* what the exports did to the page and the disk, in order

vars == <<walletAddress, stats, loading, error, isGeneratingImage, cardEl,
          btnStyle, crashed, fetches, requests, exports, downloads, logged,
          submitted, fmt, effects>>

----------------------------------------------------------------------------
(* Bounds of the exploration *)

MaxSubmits == 2     \* fetchWalletStats calls per run
MaxExports == 2     \* downloadStatsImage calls per run

----------------------------------------------------------------------------
(* Text *)

HexLen == 40

HexDigits == {"0", "1", "2", "3", "4", "5", "6", "7", "8", "9",
              "a", "b", "c", "d", "e", "f", "A", "B", "C", "D", "E", "F"}

WhiteSpace == {" ", "\t", "\n"}

RECURSIVE TrimStart(_)
TrimStart(s) ==
    IF s # <<>> /\ Head(s) \in WhiteSpace THEN TrimStart(Tail(s)) ELSE s

RECURSIVE TrimEnd(_)
TrimEnd(s) ==
    IF s # <<>> /\ s[Len(s)] \in WhiteSpace
    THEN TrimEnd(SubSeq(s, 1, Len(s) - 1))
    ELSE s

\* String.prototype.trim
Trim(s) == TrimEnd(TrimStart(s))

\* String.prototype.slice(0, n)
Slice0(s, n) == SubSeq(s, 1, IF Len(s) < n THEN Len(s) ELSE n)

\* the pattern without its end anchor: /^0x[a-fA-F0-9]{40}/
isValidAddress_Unanchored(address) ==
    /\ Len(address) >= 2 + HexLen
    /\ address[1] = "0"
    /\ address[2] = "x"
    /\ \A i \in 3..(2 + HexLen) : address[i] \in HexDigits

\* /^0x[a-fA-F0-9]{40}$/.test(address)
isValidAddress(address) ==
    /\ Len(address) = 2 + HexLen
    /\ address[1] = "0"
    /\ address[2] = "x"
    /\ \A i \in 3..Len(address) : address[i] \in HexDigits

Repeat(c, n) == [i \in 1..n |-> c]

AddrA == <<"0", "x">> \o Repeat("a", HexLen)
AddrB == <<"0", "x">> \o [i \in 1..HexLen |-> <<"A", "B", "C", "9">>[(i % 4) + 1]]

\* the texts typed into the address input
Inputs ==
    { <<>>,                                       \* nothing typed
      <<" ", "\t">>,                              \* only white space
      AddrA,                                      \* valid, lower case
      <<" ">> \o AddrB \o <<"\n">>,               \* valid once trimmed
      <<"0", "x">> \o Repeat("a", HexLen - 1),    \* one digit short
      AddrA \o <<"f">>,                           \* one digit long
      <<"0", "x">> \o Repeat("a", HexLen - 1) \o <<"g">>,  \* not a hex digit
      <<"0", "X">> \o Repeat("a", HexLen) }       \* wrong prefix

----------------------------------------------------------------------------
(* Values *)

\* JSON null, the initial value of stats
Null == [json |-> "null"]

\* a JSON value is truthy unless it is null (false, 0 and "" are not modelled)
Truthy(v) == v.json # "null"

\* the messages of setError; "" is the empty banner
ErrRequired == "Please enter a wallet address"
ErrInvalid == "Please enter a valid Ethereum wallet address"
ErrStatus == "Failed to fetch wallet statistics"
ErrOther == "An error occurred"

\* what fetch() rejects with, and what response.json() rejects with
NetworkError == [isError |-> TRUE, message |-> "Failed to fetch"]
SyntaxError == [isError |-> TRUE, message |-> "Unexpected token < in JSON"]

\* err instanceof Error ? err.message : "An error occurred"
CatchMessage(err) == IF err.isError THEN err.message ELSE ErrOther

\* interface WalletStats: a payload of the expected shape for the address asked
WalletStats(address, trades, buys, sells) ==
    [json |-> "object", address |-> address, total_volume |-> "824.309202265870747275",
     total_trades |-> trades, buy_count |-> buys, sell_count |-> sells,
     first_trade |-> 1749666804, last_trade |-> 1749666804]

\* a JSON object with none of the fields of WalletStats, such as {}
EmptyObject == [json |-> "object"]

\* String.prototype.toLowerCase on the hex digits
LowerCase(s) ==
    [i \in 1..Len(s) |->
        CASE s[i] = "A" -> "a" [] s[i] = "B" -> "b" [] s[i] = "C" -> "c"
          [] s[i] = "D" -> "d" [] s[i] = "E" -> "e" [] s[i] = "F" -> "f"
          [] OTHER -> s[i]]

\* what response.json() can resolve to: the collaborator is opaque, so any JSON
\* value; the counts of a well-formed payload need not add up, and its address
\* is the collaborator's spelling of the one asked, in the same case or not
Payloads(address) ==
    { WalletStats(address, 142, 85, 57), WalletStats(address, 10, 4, 5),
      WalletStats(LowerCase(address), 142, 85, 57),
      EmptyObject, Null }

\* a response body that is not JSON text, such as an HTML error page
NotJson == [json |-> "invalid"]

\* the bodies a response with response.ok can carry
Bodies(address) == Payloads(address) \cup {NotJson}

\* the card's render: formatNumber(stats.total_volume) calls toFixed on the
\* value unless it is a string (parseFloat) - undefined.toFixed throws
RenderThrows(s) == Truthy(s) /\ "total_volume" \notin DOMAIN s

----------------------------------------------------------------------------
(* Numbers and formatNumber *)

\* decimal digits kept of a fraction: the precision of the numbers modelled
FracDigits == 3

\* a number is m / 10^e; NaN is the result of parsing text that is no number
Num(m, e) == [nan |-> FALSE, m |-> m, e |-> e]
NaN == [nan |-> TRUE, m |-> 0, e |-> 0]

RECURSIVE Pow10(_)
Pow10(n) == IF n = 0 THEN 1 ELSE 10 * Pow10(n - 1)

Abs(n) == IF n < 0 THEN 0 - n ELSE n

DigitChars == <<"0", "1", "2", "3", "4", "5", "6", "7", "8", "9">>
DigitChar(d) == DigitChars[d + 1]
DigitVal(c) == CHOOSE d \in 0..9 : DigitChars[d + 1] = c
IsDigit(c) == \E d \in 0..9 : DigitChars[d + 1] = c

RECURSIVE IntToChars(_)
IntToChars(n) ==
    IF n < 10 THEN <<DigitChar(n)>>
    ELSE IntToChars(n \div 10) \o <<DigitChar(n % 10)>>

RECURSIVE CharsToInt(_)
CharsToInt(ds) ==
    IF ds = <<>> THEN 0
    ELSE 10 * CharsToInt(SubSeq(ds, 1, Len(ds) - 1)) + DigitVal(ds[Len(ds)])

\* the longest prefix of s made of digits
RECURSIVE TakeDigits(_)
TakeDigits(s) ==
    IF s # <<>> /\ IsDigit(Head(s)) THEN <<Head(s)>> \o TakeDigits(Tail(s)) ELSE <<>>

\* parseFloat: leading white space, a sign, digits, a point and digits; what
\* follows is ignored; NaN without a digit. Exponents are not modelled, and of
\* the fraction FracDigits digits are kept.
ParseFloat(s) ==
    LET t == TrimStart(s)
        signed == t # <<>> /\ Head(t) \in {"-", "+"}
        u == IF signed THEN Tail(t) ELSE t
        int == TakeDigits(u)
        v == SubSeq(u, Len(int) + 1, Len(u))
        frac == IF v # <<>> /\ Head(v) = "." THEN TakeDigits(Tail(v)) ELSE <<>>
        kept == Slice0(frac, FracDigits)
        m == CharsToInt(int) * Pow10(Len(kept)) + CharsToInt(kept)
    IN  IF int = <<>> /\ frac = <<>> THEN NaN
        ELSE Num(IF signed /\ Head(t) = "-" THEN 0 - m ELSE m, Len(kept))

\* number >= k for a positive integer k (NaN >= k is false)
Ge(number, k) ==
    ~number.nan /\ number.m >= 0 /\ (number.m \div Pow10(number.e)) >= k

\* number / 10^k
Over(number, k) == IF number.nan THEN NaN ELSE Num(number.m, number.e + k)

\* Number.prototype.toFixed(2). A value half way between two results goes up
\* or down with the binary value of the double, which this model does not
\* carry: tieUp says which way.
ToFixed2(number, tieUp) ==
    IF number.nan THEN <<"N", "a", "N">>
    ELSE LET a == Abs(number.m)
             c == IF number.e <= 2 THEN a * Pow10(2 - number.e)
                  ELSE LET d == Pow10(number.e - 2)
                           q == a \div d
                           r == a % d
                       IN  IF 2 * r > d \/ (2 * r = d /\ tieUp) THEN q + 1 ELSE q
         IN  (IF number.m < 0 THEN <<"-">> ELSE <<>>)
                 \o IntToChars(c \div 100) \o <<".">>
                 \o <<DigitChar((c \div 10) % 10), DigitChar(c % 10)>>

\* formatNumber; num is [type |-> "number", value |-> ...] or
\* [type |-> "string", text |-> ...]
formatNumber(num, tieUp) ==
    LET number == IF num.type = "string" THEN ParseFloat(num.text) ELSE num.value
    IN  IF Ge(number, 1000000) THEN ToFixed2(Over(number, 6), tieUp) \o <<"M">>
        ELSE IF Ge(number, 1000) THEN ToFixed2(Over(number, 3), tieUp) \o <<"K">>
        ELSE ToFixed2(number, tieUp)

\* the numbers formatNumber is applied to
Mantissas == {0, 5, 950, 999, 1000, 1005, 1500, 999995, 1000000, 2500000}
FormatNumbers ==
    {Num(sign * m, e) : sign \in {1, 0 - 1}, m \in Mantissas, e \in 0..FracDigits}

\* the decimal text of a number, as a collaborator writes it
Decimal(x) ==
    LET a == Abs(x.m)
        int == IntToChars(a \div Pow10(x.e))
        r == a % Pow10(x.e)
        frac == [i \in 1..x.e |-> DigitChar((r \div Pow10(x.e - i)) % 10)]
    IN  (IF x.m < 0 THEN <<"-">> ELSE <<>>) \o int
            \o (IF x.e > 0 THEN <<".">> \o frac ELSE <<>>)

FormatArgs ==
    {[type |-> "number", value |-> x] : x \in FormatNumbers}
        \cup {[type |-> "string", text |-> Decimal(x)] : x \in FormatNumbers}

\* no call of formatNumber under way
NoCall == [arg |-> [type |-> "none"], tieUp |-> FALSE, out |-> <<>>]

----------------------------------------------------------------------------
(* The page *)

Init ==
    /\ walletAddress = <<>>
    /\ stats = Null
    /\ loading = FALSE
    /\ error = ""
    /\ isGeneratingImage = FALSE
    /\ cardEl = 0
    /\ btnStyle = <<>>
    /\ crashed = FALSE
    /\ fetches = {}
    /\ requests = <<>>
    /\ exports = {}
    /\ downloads = <<>>
    /\ logged = 0
    /\ submitted = <<>>
    /\ fmt = NoCall
    /\ effects = <<>>

\* the save buttons that are still referenced: the mounted card's, and the one
\* each suspended export holds in saveButton
Live(card, exps) == ({card} \ {0}) \cup {e.button : e \in exps}

\* {stats && (<div ref={statsCardRef}> ...)}: the commit that follows setStats(s).
\* A card that stays mounted keeps its element; a card mounted anew is a new
\* element el whose button has no inline style; a render that throws unmounts
\* the root.
Commit(s, el) ==
    /\ crashed' = (crashed \/ RenderThrows(s))
    /\ cardEl' = IF crashed' \/ ~Truthy(s) THEN 0
                 ELSE IF cardEl # 0 THEN cardEl ELSE el
    /\ btnStyle' = [b \in Live(cardEl', exports) |->
                       IF b \in DOMAIN btnStyle THEN btnStyle[b] ELSE ""]

\* <input onChange={(e) => setWalletAddress(e.target.value)} disabled={loading}>
TypeInput(text) ==
    /\ ~crashed
    /\ ~loading
    /\ text # walletAddress
    /\ walletAddress' = text
    /\ UNCHANGED <<fmt, effects, stats, loading, error, isGeneratingImage, cardEl, btnStyle,
                   crashed, fetches, requests, exports, downloads, logged,
                   submitted>>

\* the same with the displayed stats cleared as well
Reject_ClearsStats(message) ==
    /\ error' = message
    /\ stats' = Null
    /\ Commit(Null, 0)
    /\ UNCHANGED <<loading, fetches, requests>>

\* setError(message); return;
Reject(message) ==
    /\ error' = message
    /\ UNCHANGED <<stats, loading, cardEl, btnStyle, crashed, fetches, requests>>

\* the same with the request keyed by the text as typed
Accept_Untrimmed ==
    /\ loading' = TRUE
    /\ error' = ""
    /\ stats' = Null
    /\ Commit(Null, 0)
    /\ requests' = Append(requests, walletAddress)
    /\ fetches' = fetches \cup {[id |-> Len(requests) + 1, at |-> "fetch"]}

\* the same without setStats(null)
Accept_KeepStats ==
    /\ loading' = TRUE
    /\ error' = ""
    /\ UNCHANGED <<stats, cardEl, btnStyle, crashed>>
    /\ requests' = Append(requests, Trim(walletAddress))
    /\ fetches' = fetches \cup {[id |-> Len(requests) + 1, at |-> "fetch"]}

\* the same without setError("")
Accept_KeepError ==
    /\ loading' = TRUE
    /\ UNCHANGED error
    /\ stats' = Null
    /\ Commit(Null, 0)
    /\ requests' = Append(requests, Trim(walletAddress))
    /\ fetches' = fetches \cup {[id |-> Len(requests) + 1, at |-> "fetch"]}

\* setLoading(true); setError(""); setStats(null); fetch(`.../${walletAddress.trim()}`)
Accept ==
    /\ loading' = TRUE
    /\ error' = ""
    /\ stats' = Null
    /\ Commit(Null, 0)
    /\ requests' = Append(requests, Trim(walletAddress))
    /\ fetches' = fetches \cup {[id |-> Len(requests) + 1, at |-> "fetch"]}

\* fetchWalletStats, up to its first await
fetchWalletStats ==
    /\ Len(submitted) < MaxSubmits
    /\ submitted' = Append(submitted, walletAddress)
    /\ IF Trim(walletAddress) = <<>>
       THEN Reject(ErrRequired)
       ELSE IF ~isValidAddress(Trim(walletAddress))
       THEN Reject(ErrInvalid)
       ELSE Accept
    /\ UNCHANGED <<fmt, effects, walletAddress, isGeneratingImage, exports, downloads, logged>>

\* the same with a button that stays enabled while loading
ClickAnalyze_NotDisabledWhileLoading ==
    /\ ~crashed
    /\ Trim(walletAddress) # <<>>
    /\ fetchWalletStats

\* <button type="submit" disabled={loading || !walletAddress.trim()}>, and the
\* Enter key in the input (disabled while loading; a form whose submit button is
\* disabled is not submitted implicitly)
ClickAnalyze ==
    /\ ~crashed
    /\ ~(loading \/ Trim(walletAddress) = <<>>)
    /\ fetchWalletStats

\* <form onSubmit={handleSubmit}>: a submit event that did not come through the
\* button, as form.requestSubmit() or a test that calls the handler fires it
RequestSubmit ==
    /\ ~crashed
    /\ fetchWalletStats

\* the same with the export's in-progress flag cleared as well
Fail_ClearsGenerating(f, err) ==
    /\ error' = CatchMessage(err)
    /\ loading' = FALSE
    /\ isGeneratingImage' = FALSE
    /\ fetches' = fetches \ {f}
    /\ UNCHANGED <<fmt, effects, walletAddress, stats, cardEl, btnStyle,
                   crashed, requests, exports, downloads, logged, submitted>>

\* catch (err) { setError(...) } finally { setLoading(false) }
Fail(f, err) ==
    /\ error' = CatchMessage(err)
    /\ loading' = FALSE
    /\ fetches' = fetches \ {f}
    /\ UNCHANGED <<fmt, effects, walletAddress, stats, isGeneratingImage, cardEl, btnStyle,
                   crashed, requests, exports, downloads, logged, submitted>>

\* await fetch(...) rejects: no response at all
FetchRejects(f) ==
    /\ f.at = "fetch"
    /\ Fail(f, NetworkError)

\* await fetch(...) resolves with !response.ok
FetchNotOk(f) ==
    /\ f.at = "fetch"
    /\ Fail(f, [isError |-> TRUE, message |-> ErrStatus])

\* await fetch(...) resolves with response.ok: on to await response.json()
FetchOk(f, body) ==
    /\ f.at = "fetch"
    /\ fetches' = (fetches \ {f}) \cup {[id |-> f.id, at |-> "json", body |-> body]}
    /\ UNCHANGED <<fmt, effects, walletAddress, stats, loading, error, isGeneratingImage,
                   cardEl, btnStyle, crashed, requests, exports, downloads,
                   logged, submitted>>

\* await response.json() rejects: the body is not JSON
JsonRejects(f) ==
    /\ f.at = "json"
    /\ f.body = NotJson
    /\ Fail(f, SyntaxError)

\* the same with the trade count made to agree with the buys and sells
JsonResolves_Reconciled(f) ==
    /\ f.at = "json"
    /\ f.body # NotJson
    /\ stats' = IF "total_trades" \in DOMAIN f.body
                THEN [f.body EXCEPT !.total_trades = f.body.buy_count + f.body.sell_count]
                ELSE f.body
    /\ loading' = FALSE
    /\ Commit(f.body, f.id)
    /\ fetches' = fetches \ {f}
    /\ UNCHANGED <<fmt, effects, walletAddress, error, isGeneratingImage, requests, exports,
                   downloads, logged, submitted>>

\* const data = await response.json() resolves: setStats(data), then finally
JsonResolves(f) ==
    /\ f.at = "json"
    /\ f.body # NotJson
    /\ stats' = f.body
    /\ loading' = FALSE
    /\ Commit(f.body, f.id)
    /\ fetches' = fetches \ {f}
    /\ UNCHANGED <<fmt, effects, walletAddress, error, isGeneratingImage, requests, exports,
                   downloads, logged, submitted>>

\* the exports begun so far
Begun == Len(downloads) + logged + Cardinality(exports)

\* <button data-save-button onClick={downloadStatsImage}
\*   disabled={isGeneratingImage}>, up to await html2canvas(...)
downloadStatsImage ==
    /\ ~(cardEl = 0 \/ ~Truthy(stats))
    /\ isGeneratingImage' = TRUE
    /\ btnStyle' = [btnStyle EXCEPT ![cardEl] = "none"]
    /\ exports' = exports \cup {[button |-> cardEl, stats |-> stats]}
    /\ UNCHANGED <<fmt, walletAddress, stats, loading, error, cardEl, crashed,
                   fetches, requests, downloads, logged, submitted>>
    /\ effects' = Append(effects, "hide")

\* the same with a button that is not disabled while an export runs
ClickSaveImage_NotDisabled ==
    /\ ~crashed
    /\ cardEl # 0
    /\ btnStyle[cardEl] # "none"
    /\ Begun < MaxExports
    /\ downloadStatsImage

\* the save button can be clicked when it is rendered, shown and not disabled
ClickSaveImage ==
    /\ ~crashed
    /\ cardEl # 0
    /\ btnStyle[cardEl] # "none"
    /\ ~isGeneratingImage
    /\ Begun < MaxExports
    /\ downloadStatsImage

\* finally { saveButton.style.display = "flex"; setIsGeneratingImage(false) }
Restore(e) ==
    /\ btnStyle' = [b \in Live(cardEl, exports') |->
                       IF b = e.button THEN "flex" ELSE btnStyle[b]]
    /\ isGeneratingImage' = FALSE

\* `wallet-stats-${address.slice(0, 8)}.png`
FileName(address) ==
    <<"w", "a", "l", "l", "e", "t", "-", "s", "t", "a", "t", "s", "-">>
        \o Slice0(address, 8) \o <<".", "p", "n", "g">>

\* the same with the file named after the text in the address input
ExportSaves_NamedByInput(e) ==
    /\ exports' = exports \ {e}
    /\ downloads' = Append(downloads, FileName(Trim(walletAddress)))
    /\ Restore(e)
    /\ UNCHANGED <<fmt, walletAddress, stats, loading, error, cardEl, crashed,
                   fetches, requests, logged, submitted>>
    /\ effects' = effects \o <<"raster", "encode", "save", "show">>

\* the same with the button shown again as soon as html2canvas has resolved
ExportSaves_ShowBeforeSave(e) ==
    /\ exports' = exports \ {e}
    /\ downloads' = Append(downloads, FileName(e.stats.address))
    /\ Restore(e)
    /\ UNCHANGED <<fmt, walletAddress, stats, loading, error, cardEl, crashed,
                   fetches, requests, logged, submitted>>
    /\ effects' = effects \o <<"raster", "show", "encode", "save">>

\* html2canvas resolves, toDataURL encodes, link.click() saves the file
ExportSaves(e) ==
    /\ exports' = exports \ {e}
    /\ downloads' = Append(downloads, FileName(e.stats.address))
    /\ Restore(e)
    /\ UNCHANGED <<fmt, walletAddress, stats, loading, error, cardEl, crashed,
                   fetches, requests, logged, submitted>>
    /\ effects' = effects \o <<"raster", "encode", "save", "show">>

\* the same with the restoration in the try block, after link.click()
ExportThrows_NoRestore(e) ==
    /\ exports' = exports \ {e}
    /\ logged' = logged + 1
    /\ btnStyle' = [b \in Live(cardEl, exports') |-> btnStyle[b]]
    /\ isGeneratingImage' = FALSE
    /\ UNCHANGED <<fmt, walletAddress, stats, loading, error, cardEl, crashed,
                   fetches, requests, downloads, submitted>>
    /\ UNCHANGED effects

\* the same with setIsGeneratingImage(false) in the try block
ExportThrows_NoClear(e) ==
    /\ exports' = exports \ {e}
    /\ logged' = logged + 1
    /\ btnStyle' = [b \in Live(cardEl, exports') |->
                       IF b = e.button THEN "flex" ELSE btnStyle[b]]
    /\ UNCHANGED isGeneratingImage
    /\ UNCHANGED <<fmt, walletAddress, stats, loading, error, cardEl, crashed,
                   fetches, requests, downloads, submitted>>
    /\ effects' = Append(effects, "show")

\* html2canvas rejects, or toDataURL throws (a tainted canvas): console.error
ExportThrows(e) ==
    /\ exports' = exports \ {e}
    /\ logged' = logged + 1
    /\ Restore(e)
    /\ UNCHANGED <<fmt, walletAddress, stats, loading, error, cardEl, crashed,
                   fetches, requests, downloads, submitted>>
    /\ \E rastered \in BOOLEAN :
           effects' = effects \o (IF rastered THEN <<"raster">> ELSE <<>>) \o <<"show">>

Settle ==
    \/ \E f \in fetches : FetchRejects(f)
    \/ \E f \in fetches : FetchNotOk(f)
    \/ \E f \in fetches : \E body \in Bodies(requests[f.id]) : FetchOk(f, body)
    \/ \E f \in fetches : JsonRejects(f)
    \/ \E f \in fetches : JsonResolves(f)

Finish ==
    \/ \E e \in exports : ExportSaves(e)
    \/ \E e \in exports : ExportThrows(e)

Next ==
    \/ \E text \in Inputs : TypeInput(text)
    \/ ClickAnalyze
    \/ ClickSaveImage
    \/ Settle
    \/ Finish

\* the page as its user drives it
Spec == Init /\ [][Next]_vars

\* the page when submit events may also arrive without the button
SpecDirect == Init /\ [][Next \/ RequestSubmit]_vars

\* promises settle: the network answers or fails, html2canvas returns or throws
FairSpec == Spec /\ WF_vars(Settle) /\ WF_vars(Finish)

\* formatNumber on its own: a call with any of the arguments, then its result
InitFormat ==
    /\ walletAddress = <<>>
    /\ stats = Null
    /\ loading = FALSE
    /\ error = ""
    /\ isGeneratingImage = FALSE
    /\ cardEl = 0
    /\ btnStyle = <<>>
    /\ crashed = FALSE
    /\ fetches = {}
    /\ requests = <<>>
    /\ exports = {}
    /\ downloads = <<>>
    /\ logged = 0
    /\ submitted = <<>>
    /\ effects = <<>>
    /\ fmt \in {[arg |-> a, tieUp |-> t, out |-> <<>>] : a \in FormatArgs, t \in BOOLEAN}

Format ==
    /\ fmt.out = <<>>
    /\ fmt' = [fmt EXCEPT !.out = formatNumber(fmt.arg, fmt.tieUp)]
    /\ UNCHANGED <<walletAddress, stats, loading, error, isGeneratingImage, cardEl,
                   btnStyle, crashed, fetches, requests, exports, downloads,
                   logged, submitted, effects>>

SpecFormat == InitFormat /\ [][Format]_vars

----------------------------------------------------------------------------
(* Properties *)

\* the address pattern ^0x[0-9a-fA-F]{40}$ as the specification words it
MatchesPattern(s) ==
    /\ Len(s) = HexLen + 2
    /\ SubSeq(s, 1, 2) = <<"0", "x">>
    /\ {s[i] : i \in 3..Len(s)} \subseteq HexDigits

Last(s) == s[Len(s)]

\* a step in which fetchWalletStats ran
Submits == submitted' # submitted

\* C1: a submit whose trimmed input is empty or does not match the address
\* pattern is rejected: the error is the 'address required' message for empty
\* input and the 'invalid address' message otherwise, loading is and stays
\* false, and no request is issued.
C1_RejectedSubmit ==
    [][(Submits /\ ~MatchesPattern(Trim(walletAddress))) =>
          /\ error' = (IF Trim(walletAddress) = <<>> THEN ErrRequired ELSE ErrInvalid)
          /\ error' # ""
          /\ ~loading /\ ~loading'
          /\ requests' = requests
          /\ fetches' = fetches]_vars

\* an empty submit and then a malformed one, both rejected without a request
C1_Witness ==
    /\ Len(submitted) = 2
    /\ Trim(submitted[1]) = <<>>
    /\ Trim(submitted[2]) # <<>>
    /\ ~MatchesPattern(Trim(submitted[2]))
    /\ error = ErrInvalid
    /\ requests = <<>>

\* the trimmed texts of the submissions that match the pattern, in order
RECURSIVE AcceptedKeys(_)
AcceptedKeys(subs) ==
    IF subs = <<>> THEN <<>>
    ELSE IF MatchesPattern(Trim(Head(subs)))
         THEN <<Trim(Head(subs))>> \o AcceptedKeys(Tail(subs))
         ELSE AcceptedKeys(Tail(subs))

\* C2: the requests issued are exactly one per accepted submission, in order,
\* each keyed by the trimmed address; no request is issued without a submit
\* (no retry after a failure).
C2_OneRequestPerAcceptedSubmit == requests = AcceptedKeys(submitted)

\* an input with surrounding white space was submitted, failed, and the same
\* address was submitted again
C2_Witness ==
    /\ Len(requests) = 2
    /\ submitted[1] # Trim(submitted[1])
    /\ requests[1] = requests[2]
    /\ fetches = {}
    /\ error = ErrStatus

\* C3: while a fetch is in flight (loading) the stored WalletStats and the
\* error message are both empty and no card is shown.
C3_ClearedWhileLoading == loading => (~Truthy(stats) /\ error = "" /\ cardEl = 0)

\* loading again after a card had been shown (and exported)
C3_Witness == loading /\ downloads # <<>> /\ Len(requests) = 2

\* a value of the shape of interface WalletStats
IsWalletStats(v) ==
    /\ Truthy(v)
    /\ {"address", "total_volume", "total_trades", "buy_count", "sell_count",
        "first_trade", "last_trade"} \subseteq DOMAIN v

\* C4: once the fetch of an accepted submit has ended, the page is either
\* Loaded with a payload of the WalletStats shape, or Failed: loading false, a
\* non-empty error, no WalletStats stored; and the page is still mounted.
C4_FailedUnlessWellFormed ==
    (fetches = {} /\ submitted # <<>> /\ MatchesPattern(Trim(Last(submitted)))) =>
        /\ ~crashed
        /\ ~loading
        /\ \/ IsWalletStats(stats) /\ error = ""
           \/ ~Truthy(stats) /\ error # ""

\* C5: at most one of the error message and the WalletStats is populated.
C5_ErrorOrStatsNotBoth == ~(error # "" /\ Truthy(stats))

\* C6: the save button of the card being captured is hidden as long as its
\* export is in flight, and when an export ends - saved or thrown - the button
\* of that card is shown again; with no export in flight the mounted card's
\* button is visible.
C6_HiddenThenRestored ==
    [][/\ \A e \in exports' : btnStyle'[e.button] = "none"
       /\ \A e \in exports \ exports' :
              e.button = cardEl' => btnStyle'[cardEl'] = "flex"
       /\ (exports' = {} /\ cardEl' # 0) => btnStyle'[cardEl'] # "none"]_vars

\* an export threw and the button of the card is shown again
C6_Witness ==
    /\ logged > 0
    /\ downloads = <<>>
    /\ exports = {}
    /\ cardEl # 0
    /\ btnStyle[cardEl] = "flex"

\* C7: at most one fetch is outstanding, and while loading neither the input
\* text changes nor a request is issued.
C7_SingleFetch ==
    [][/\ Cardinality(fetches') <= 1
       /\ fetches' # {} => loading'
       /\ loading => (requests' = requests /\ walletAddress' = walletAddress)]_vars

\* the second fetch of a run, alone in flight
C7_Witness == loading /\ Cardinality(fetches) = 1 /\ Len(requests) = 2 /\ error = ""

\* C8: at most one export is in flight, and the save button is disabled
\* (isGeneratingImage) as long as one is.
C8_SingleExport ==
    /\ Cardinality(exports) <= 1
    /\ exports # {} => isGeneratingImage

\* an export is still running on the card that a new submission has replaced
C8_Witness ==
    /\ exports # {}
    /\ cardEl # 0
    /\ \A e \in exports : e.button # cardEl
    /\ btnStyle[cardEl] # "none"
    /\ isGeneratingImage

\* C9: an export that set isGeneratingImage eventually clears it; an export
\* that throws leaves the error banner alone and starts no other export.
C9_IndicatorCleared ==
    /\ isGeneratingImage ~> ~isGeneratingImage
    /\ [][logged' # logged =>
             /\ error' = error
             /\ exports' \subseteq exports
             /\ requests' = requests]_vars

\* an export threw: the indicator is clear and the banner is empty
C9_Witness ==
    /\ logged > 0
    /\ ~isGeneratingImage
    /\ exports = {}
    /\ Truthy(stats)
    /\ error = ""

\* C10: whenever no fetch is outstanding the page accepts a submission (it is
\* mounted and not loading), and after a submission it shows an outcome: an
\* error (Rejected, Failed) or a WalletStats (Loaded).
C10_Resubmittable ==
    fetches = {} =>
        /\ ~crashed
        /\ ~loading
        /\ submitted # <<>> => (error # "" \/ Truthy(stats))

\* {stats.total_trades}, {stats.buy_count}, {stats.sell_count}: the three count
\* cells of the card
CountCells(s) == <<s.total_trades, s.buy_count, s.sell_count>>

\* C11: when the fetch of an accepted submit ends with a success status and a
\* body of the WalletStats shape, the page is Loaded: loading false, error
\* empty, the card mounted, and stats is the body as received - the three
\* counts are shown as sent, also when buys + sells differs from the total.
C11_LoadedAsReceived ==
    [][\A f \in fetches \ fetches' :
          (f.at = "json" /\ IsWalletStats(f.body)) =>
              /\ stats' = f.body
              /\ CountCells(stats') = <<f.body.total_trades, f.body.buy_count,
                                        f.body.sell_count>>
              /\ ~loading'
              /\ error' = ""
              /\ cardEl' # 0 /\ ~crashed']_vars

\* a card whose counts do not add up is shown
C11_Witness ==
    /\ cardEl # 0
    /\ ~loading
    /\ error = ""
    /\ IsWalletStats(stats)
    /\ stats.buy_count + stats.sell_count # stats.total_trades

\* C12: when a fetch ends after a later submission has been accepted, its
\* result is discarded: it changes neither the stats nor the error nor the
\* loading flag, so that what is shown in the end is the outcome of the later
\* submission whatever the order of the two responses.
C12_LastSubmissionWins ==
    [][\A f \in fetches \ fetches' :
          f.id < Len(requests) =>
              (stats' = stats /\ error' = error /\ loading' = loading)]_vars

\* the fetch f is over in the next state
Ended(f) == f \in fetches /\ \A g \in fetches' : g.id # f.id

\* C13: a second submission of the address just submitted issues a request of
\* its own, and when its fetch ends the stats and the error are those of its
\* response alone: the body and no error, or no stats and the error of the
\* failure.
C13_ResubmitReplaces ==
    [][/\ (Submits /\ requests # <<>> /\ Last(requests) = Trim(walletAddress)) =>
              /\ requests' = Append(requests, Trim(walletAddress))
              /\ \E g \in fetches' \ fetches : g.id = Len(requests')
       /\ \A f \in fetches :
              (Ended(f) /\ f.id > 1 /\ requests[f.id] = requests[f.id - 1]) =>
                  \/ /\ f.at = "json" /\ f.body # NotJson
                     /\ stats' = f.body /\ error' = ""
                  \/ /\ f.at = "json" /\ f.body = NotJson
                     /\ stats' = Null /\ error' = SyntaxError.message
                  \/ /\ f.at = "fetch"
                     /\ stats' = Null /\ error' \in {NetworkError.message, ErrStatus}]_vars

\* the first submission loaded a card (it was exported), the second submission
\* of the same address failed: the card is gone
C13_Witness ==
    /\ Len(requests) = 2
    /\ requests[1] = requests[2]
    /\ fetches = {}
    /\ downloads # <<>>
    /\ ~Truthy(stats)
    /\ error = ErrStatus

\* the number an argument of formatNumber denotes
Denoted(arg) ==
    IF arg.type = "number" THEN arg.value
    ELSE CHOOSE x \in FormatNumbers : Decimal(x) = arg.text

\* the magnitude of x is at least k
MagnitudeGe(x, k) == (Abs(x.m) \div Pow10(x.e)) >= k

\* C14: the result of formatNumber goes by the magnitude of the number the
\* argument denotes, be it a number or its decimal text: from 1,000,000 on it
\* is the number over 1,000,000 to two decimals and "M", from 1,000 on the
\* number over 1,000 to two decimals and "K", below that the number to two
\* decimals; 950 gives "950.00", 1500 "1.50K", 2500000 "2.50M".
C14_SuffixByMagnitude ==
    fmt.out # <<>> =>
        LET x == Denoted(fmt.arg)
        IN  /\ fmt.out =
                   IF MagnitudeGe(x, 1000000)
                   THEN ToFixed2(Over(x, 6), fmt.tieUp) \o <<"M">>
                   ELSE IF MagnitudeGe(x, 1000)
                   THEN ToFixed2(Over(x, 3), fmt.tieUp) \o <<"K">>
                   ELSE ToFixed2(x, fmt.tieUp)
            /\ x = Num(950, 0) => fmt.out = <<"9", "5", "0", ".", "0", "0">>
            /\ x = Num(1500, 0) => fmt.out = <<"1", ".", "5", "0", "K">>
            /\ x = Num(2500000, 0) => fmt.out = <<"2", ".", "5", "0", "M">>

\* what one export does, in order: saved; toDataURL threw; html2canvas rejected
ExportRuns ==
    { <<"hide", "raster", "encode", "save", "show">>,
      <<"hide", "raster", "show">>,
      <<"hide", "show">> }

\* log is a sequence of whole runs, with at most one run begun at its end
RECURSIVE RunAfterRun(_)
RunAfterRun(log) ==
    \/ log \in {<<>>, <<"hide">>}
    \/ \E run \in ExportRuns :
          /\ Len(log) >= Len(run)
          /\ SubSeq(log, 1, Len(run)) = run
          /\ RunAfterRun(SubSeq(log, Len(run) + 1, Len(log)))

\* C15: the effects of the exports are a sequence of runs hide, rasterize,
\* encode, save, show - cut short to the show when rasterizing or encoding
\* throws - one run after the other: a file is saved only after its raster and
\* its encoding and before its button is shown again, and as many files are
\* saved as there are saves in the runs.
C15_ExportStepsInOrder ==
    /\ RunAfterRun(effects)
    /\ Len(SelectSeq(effects, LAMBDA x : x = "save")) = Len(downloads)
    /\ (exports # {}) = (effects # <<>> /\ Last(effects) = "hide")

\* an export whose encoding threw, then one that saved its file
C15_Witness ==
    effects = <<"hide", "raster", "show", "hide", "raster", "encode", "save", "show">>

\* the file saved in this step
Saved == downloads' # downloads

\* C16 as claimed: the file of a successful export is named wallet-stats-, the
\* first 8 characters of the address submitted for the exported card, .png.
C16_FileNamedBySubmittedAddress ==
    [][Saved =>
          \E e \in exports \ exports' :
              Last(downloads') =
                  <<"w", "a", "l", "l", "e", "t", "-", "s", "t", "a", "t", "s", "-">>
                      \o SubSeq(requests[e.button], 1, 8) \o <<".", "p", "n", "g">>]_vars

\* C16 as amended: the file of a successful export is named wallet-stats-, the
\* first 8 characters of the address field of the WalletStats the exported
\* card showed when the export began (and still shows, if that card is still
\* mounted), .png.
C16_FileNamedByStatsAddress ==
    [][/\ \A e \in exports' : e.button = cardEl' => e.stats = stats'
       /\ Saved =>
              \E e \in exports \ exports' :
                  /\ IsWalletStats(e.stats)
                  /\ downloads' = Append(downloads,
                         <<"w", "a", "l", "l", "e", "t", "-", "s", "t", "a", "t", "s", "-">>
                             \o SubSeq(e.stats.address, 1, 8) \o <<".", "p", "n", "g">>)]_vars

\* 0xBC9ABC... was submitted with white space around it, the collaborator
\* answered for 0xbc9abc..., and the card was saved
C16_Witness ==
    /\ requests = <<AddrB>>
    /\ stats.json = "object"
    /\ downloads = << <<"w", "a", "l", "l", "e", "t", "-", "s", "t", "a", "t", "s", "-",
                        "0", "x", "b", "c", "9", "a", "b", "c", ".", "p", "n", "g">> >>

\* C17: a rejected submission (trimmed input empty or malformed) changes only
\* the error message: the displayed stats and their card, the loading flag, the
\* input text, the export in-progress flag and the exports in flight are as
\* before.
C17_RejectChangesOnlyError ==
    [][(Submits /\ ~MatchesPattern(Trim(walletAddress))) =>
          /\ stats' = stats
          /\ loading' = loading
          /\ walletAddress' = walletAddress
          /\ isGeneratingImage' = isGeneratingImage
          /\ cardEl' = cardEl
          /\ btnStyle' = btnStyle
          /\ crashed' = crashed
          /\ exports' = exports
          /\ downloads' = downloads
          /\ logged' = logged]_vars

\* a malformed text was submitted and rejected while a card was displayed and
\* an export of it was in flight
C17_Witness ==
    /\ Len(submitted) = 2
    /\ ~MatchesPattern(Trim(submitted[2]))
    /\ error = ErrInvalid
    /\ IsWalletStats(stats)
    /\ cardEl # 0
    /\ isGeneratingImage
    /\ exports # {}

\* a step of fetchWalletStats: the submit or the settling of an await
FetchStep == Submits \/ fetches' # fetches

\* a step of downloadStatsImage: the click or the settling of its await
ExportStep == exports' # exports

\* C18: no step of a submit or of a response changes the export in-progress
\* flag, the exports in flight, the saved files or the display style of any
\* save button, and a card it mounts has its button shown; no step of an
\* export changes the input text, the loading flag, the error message, the
\* stats, the card or the requests.
C18_LifecyclesDisjoint ==
    [][/\ FetchStep =>
             /\ isGeneratingImage' = isGeneratingImage
             /\ exports' = exports
             /\ downloads' = downloads
             /\ logged' = logged
             /\ effects' = effects
             /\ \A b \in DOMAIN btnStyle' :
                    btnStyle'[b] = (IF b \in DOMAIN btnStyle THEN btnStyle[b] ELSE "")
       /\ ExportStep =>
             /\ walletAddress' = walletAddress
             /\ loading' = loading
             /\ error' = error
             /\ stats' = stats
             /\ cardEl' = cardEl
             /\ crashed' = crashed
             /\ fetches' = fetches
             /\ requests' = requests
             /\ submitted' = submitted]_vars

\* a submission and its response arrived while an export was in flight: the
\* export still holds the hidden button of the card it began on, and the card
\* mounted by the response shows its own
C18_Witness ==
    /\ isGeneratingImage
    /\ cardEl # 0
    /\ btnStyle[cardEl] = ""
    /\ \E e \in exports : e.button # cardEl /\ btnStyle[e.button] = "none"
    /\ ~loading
    /\ IsWalletStats(stats)

====
